---- MODULE Spec2Model ----
(***************************************************************************)
(* State-machine model of nav2_smac_planner's SmacPlannerLattice           *)
(* (src/nav2_smac_planner/src/smac_planner_lattice.cpp): configure,        *)
(* activate, createPlan and dynamicParametersCallback, the latter two      *)
(* running on their own threads and serialised by the planner mutex.       *)
(*                                                                         *)
(* Real numbers (double / float members) are exact rationals <<n, d>> with *)
(* d > 0 and gcd(n, d) = 1.  Integers of the program keep their C++ width. *)
(***************************************************************************)
EXTENDS Integers, Sequences, FiniteSets, TLC

(***************************************************************************)
(* Bounds of the model.                                                    *)
(***************************************************************************)
\* number of createPlan calls in one behaviour of Spec
MaxPlans == 1
\* number of parameters the callback calls of one behaviour of Spec carry in all
MaxPlanParameters == 1
\* number of parameters the callback calls of one behaviour of ReconfigureSpec
\* carry in all
MaxParameters == 3
\* cells per side of the costmap
GridSize == 2
\* iterations a search is followed for
MaxSearchIterations == 2
\* seconds a createPlan call can wait for a lock in PlanSpec
MaxWait == 1

(***************************************************************************)
(* Program constants.                                                      *)
(***************************************************************************)
\* std::numeric_limits<int>::max()
INT_MAX == 2147483647
\* significand width of an IEEE-754 binary32 (the C++ float)
FloatMantissaBits == 24
\* plan.poses.size() > 6
MinSmoothPoses == 6

(***************************************************************************)
(* Exact rational arithmetic.                                              *)
(***************************************************************************)
Abs(i) == IF i < 0 THEN -i ELSE i

RECURSIVE GCD(_, _)
GCD(a, b) == IF b = 0 THEN a ELSE GCD(b, a % b)

Norm(n, d) ==
  LET g == GCD(Abs(n), Abs(d))
      s == IF d < 0 THEN -1 ELSE 1
  IN  <<(s * n) \div g, (s * d) \div g>>

Rat(n, d) == Norm(n, d)

RatDiv(a, b) == Norm(a[1] * b[2], a[2] * b[1])

RatSub(a, b) == Norm(a[1] * b[2] - b[1] * a[2], a[2] * b[2])

RatLess(a, b) == a[1] * b[2] < b[1] * a[2]

\* static_cast<int>(x): truncation toward zero
Trunc(r) == IF r[1] >= 0 THEN r[1] \div r[2] ELSE -((-r[1]) \div r[2])

\* C++ operator % on int: the result has the sign of the dividend
CMod(i, m) == IF i >= 0 THEN i % m ELSE -((-i) % m)

\* scale a significand up until it has FloatMantissaBits bits
RECURSIVE ScaleUp(_, _, _)
ScaleUp(a, d, k) ==
  IF a >= (2 ^ (FloatMantissaBits - 1)) * d THEN <<a, k>> ELSE ScaleUp(2 * a, d, k + 1)

RECURSIVE IsPow2(_)
IsPow2(d) == IF d = 1 THEN TRUE ELSE IF d % 2 = 1 THEN FALSE ELSE IsPow2(d \div 2)

\* a value a binary32 holds exactly
IsFloat(r) == IsPow2(r[2]) /\ Abs(r[1]) < 2 ^ FloatMantissaBits

\* static_cast<float>(x): round to nearest binary32, ties to even
\* (for |x| < 2^24; no subnormals in the model's range)
ToFloat(r) ==
  IF IsFloat(r) THEN r
  ELSE LET s  == IF r[1] < 0 THEN -1 ELSE 1
           sc == ScaleUp(Abs(r[1]), r[2], 0)
           q  == sc[1] \div r[2]
           rm == sc[1] % r[2]
           m  == IF 2 * rm > r[2] \/ (2 * rm = r[2] /\ q % 2 = 1) THEN q + 1 ELSE q
       IN  Norm(s * m, 2 ^ sc[2])

\* float / float
FloatDiv(a, b) == ToFloat(RatDiv(a, b))

(***************************************************************************)
(* External collaborators: the lattice files on disk, the costmap.         *)
(***************************************************************************)
\* lattice files a lattice_filepath parameter can name
LatticeFiles == {"default_model", "other_model", "missing_model"}

\* the files that exist and parse
LoadableFiles == {"default_model", "other_model"}

\* LatticeMotionTable::getLatticeMetadata(path) for a file that loads
getLatticeMetadata(path) ==
  IF path = "default_model"
    THEN [min_turning_radius |-> ToFloat(Rat(2, 5)), number_of_headings |-> 16]
    ELSE [min_turning_radius |-> ToFloat(Rat(1, 1)), number_of_headings |-> 8]

\* _costmap->getResolution() values
Resolutions == {Rat(1, 2), Rat(1, 1)}

\* _name, the prefix of this plugin's parameters
name == "GridBased"

(***************************************************************************)
(* State.                                                                  *)
(***************************************************************************)
VARIABLES
  lifecycle,          \* "unconfigured" | "inactive" | "active"
  resolution,         \* _costmap->getResolution()
  allow_unknown,      \* _allow_unknown
  max_iterations,     \* _max_iterations
  max_planning_time,  \* _max_planning_time
  lookup_table_size,  \* _lookup_table_size
  search_info,        \* _search_info
  metadata,           \* _metadata
  a_star,             \* *_a_star (id 0: nullptr)
  smoother,           \* *_smoother (id 0: nullptr)
  mutex,              \* owner of _mutex
  costmap_mutex,      \* owner of *(_costmap->getMutex()): createPlan or a writer
  now,                \* steady_clock::now(), from the start of the createPlan call
  cp,                 \* the frame of the createPlan call
  dp,                 \* the frame of the dynamicParametersCallback call
  plans,              \* createPlan calls the behaviour has left
  reconfigs,          \* parameters the behaviour's callback calls have left
  requested           \* history: the max_iterations value last handed in

members == <<allow_unknown, max_iterations, max_planning_time, lookup_table_size,
             search_info, metadata>>
objects == <<a_star, smoother>>
locks == <<mutex, costmap_mutex>>
env == <<lifecycle, resolution>>
vars == <<env, members, objects, locks, now, cp, dp, plans, reconfigs, requested>>

\* SearchInfo before configure() fills it
UnsetSearchInfo ==
  [lattice_filepath |-> "", cache_obstacle_heuristic |-> FALSE,
   reverse_penalty |-> Rat(0, 1), change_penalty |-> Rat(0, 1),
   non_straight_penalty |-> Rat(0, 1), cost_penalty |-> Rat(0, 1),
   analytic_expansion_ratio |-> Rat(0, 1), allow_reverse_expansion |-> FALSE,
   minimum_turning_radius |-> Rat(0, 1)]

\* _a_star == nullptr
NullAStar ==
  [id |-> 0, search_info |-> UnsetSearchInfo, allow_unknown |-> FALSE, max_iterations |-> 0,
   max_on_approach_iterations |-> 0, max_planning_time |-> Rat(0, 1),
   lookup_table_dim |-> 0, dim_3_size |-> 0, collision_checker |-> FALSE,
   start |-> <<>>, goal |-> <<>>]

\* _smoother == nullptr
NullSmoother == [id |-> 0, min_turning_radius |-> Rat(0, 1)]

\* no createPlan call in progress
IdleCP ==
  [pc |-> "idle", a |-> 0, mx |-> 0, my |-> 0,
   start_ok |-> FALSE, goal_ok |-> FALSE, found |-> FALSE, kind |-> "none",
   path |-> <<>>, num_iterations |-> 0, error |-> "", poses |-> <<>>,
   smooth_calls |-> 0, time_remaining |-> Rat(0, 1), uncaught |-> FALSE,
   locked_at |-> 0, seen |-> <<>>]

\* no dynamicParametersCallback call in progress
IdleDP ==
  [pc |-> "idle", reinit_a_star |-> FALSE, reinit_smoother |-> FALSE,
   minimum_turning_radius_global_coords |-> Rat(0, 1), lookup_table_dim |-> 0,
   result |-> "none", rebuilds |-> 0, own |-> FALSE, foreign |-> FALSE,
   lattice_set |-> FALSE, before |-> <<>>]

\* everything a search is configured by: the engine, the smoother, the members
Configuration ==
  [a_star |-> [a_star EXCEPT !.collision_checker = FALSE, !.start = <<>>, !.goal = <<>>],
   smoother |-> smoother, allow_unknown |-> allow_unknown,
   max_iterations |-> max_iterations, max_planning_time |-> max_planning_time,
   lookup_table_size |-> lookup_table_size, search_info |-> search_info,
   metadata |-> metadata]

(***************************************************************************)
(* SmacPlannerLattice::SmacPlannerLattice(): the members configure() sets  *)
(* hold placeholders until then.                                           *)
(***************************************************************************)
Constructed ==
  /\ lifecycle = "unconfigured"
  /\ resolution \in Resolutions
  /\ allow_unknown = FALSE
  /\ max_iterations = 0
  /\ max_planning_time = Rat(0, 1)
  /\ lookup_table_size = Rat(0, 1)
  /\ search_info = UnsetSearchInfo
  /\ metadata = [min_turning_radius |-> Rat(0, 1), number_of_headings |-> 0]
  /\ a_star = NullAStar
  /\ smoother = NullSmoother
  /\ mutex = "none"
  /\ costmap_mutex = "none"
  /\ now = 0
  /\ cp = IdleCP
  /\ dp = IdleDP
  /\ requested = 0

Init ==
  /\ Constructed
  /\ plans = MaxPlans
  /\ reconfigs = MaxPlanParameters

(***************************************************************************)
(* Derived quantities, computed as configure() and the callback do.        *)
(***************************************************************************)
\* the test written v < 0: a budget of 0 is kept
NormalizeMaxIterations_Strict(v) == IF v < 0 THEN INT_MAX ELSE v

\* if (_max_iterations <= 0) _max_iterations = numeric_limits<int>::max()
NormalizeMaxIterations(v) == IF v <= 0 THEN INT_MAX ELSE v

\* the step that makes the dimension odd left out
LookupTableDim_NotOdd(size, res) == Trunc(FloatDiv(ToFloat(size), ToFloat(res)))

\* lookup_table_dim: float quotient, truncated to a whole number, made odd
LookupTableDim(size, res) ==
  LET dim   == FloatDiv(ToFloat(size), ToFloat(res))
      whole == Trunc(dim)
  IN  IF CMod(whole, 2) = 0 THEN whole + 1 ELSE whole

\* x / _costmap->getResolution(), stored in a float
ToGridCoords(x, res) == ToFloat(RatDiv(x, res))

\* make_unique<AStarAlgorithm<NodeLattice>>(_motion_model, _search_info) and
\* initialize(_allow_unknown, _max_iterations, max, _max_planning_time, dim, headings)
NewAStar(id, info, unknown, iterations, time, dim, headings) ==
  [id |-> id, search_info |-> info, allow_unknown |-> unknown,
   max_iterations |-> iterations, max_on_approach_iterations |-> INT_MAX,
   max_planning_time |-> time, lookup_table_dim |-> dim, dim_3_size |-> headings,
   collision_checker |-> FALSE, start |-> <<>>, goal |-> <<>>]

\* make_unique<Smoother>(params) and initialize(_metadata.min_turning_radius)
NewSmoother(id, radius) == [id |-> id, min_turning_radius |-> radius]

(***************************************************************************)
(* configure(): the parameter values come from the node; the ones the      *)
(* launch configuration may override are inputs.                           *)
(***************************************************************************)
\* max_iterations values the node can hold at configure(): no budget, and one a
\* search can exhaust
ConfigMaxIterations == {0, MaxSearchIterations}

\* lookup_table_size values the node can hold at configure()
ConfigLookupSizes == {Rat(20, 1), Rat(3, 2)}

\* _search_info after the get_parameter calls of configure()
ConfiguredSearchInfo(file) ==
  [lattice_filepath |-> file, cache_obstacle_heuristic |-> FALSE,
   reverse_penalty |-> ToFloat(Rat(2, 1)), change_penalty |-> ToFloat(Rat(1, 20)),
   non_straight_penalty |-> ToFloat(Rat(21, 20)), cost_penalty |-> ToFloat(Rat(2, 1)),
   analytic_expansion_ratio |-> ToFloat(Rat(7, 2)), allow_reverse_expansion |-> FALSE,
   minimum_turning_radius |-> search_info.minimum_turning_radius]

Configure(iterations, size, file) ==
  /\ lifecycle = "unconfigured"
  /\ allow_unknown' = TRUE
  /\ max_planning_time' = Rat(5, 1)
  /\ lookup_table_size' = size
  /\ requested' = iterations
  /\ IF file \in LoadableFiles
       THEN LET meta == getLatticeMetadata(file)
                info == [ConfiguredSearchInfo(file) EXCEPT
                           !.minimum_turning_radius =
                              ToGridCoords(meta.min_turning_radius, resolution)]
                iter == NormalizeMaxIterations(iterations)
            IN  /\ metadata' = meta
                /\ search_info' = info
                /\ max_iterations' = iter
                /\ a_star' = NewAStar(1, info, TRUE, iter, Rat(5, 1),
                                      LookupTableDim(size, resolution),
                                      meta.number_of_headings)
                /\ smoother' = NewSmoother(1, meta.min_turning_radius)
                /\ lifecycle' = "inactive"
       ELSE \* getLatticeMetadata throws: configure() is left at line 106
            /\ search_info' = ConfiguredSearchInfo(file)
            /\ max_iterations' = iterations
            /\ UNCHANGED <<metadata, a_star, smoother, lifecycle>>
  /\ UNCHANGED <<resolution, locks, now, cp, dp, plans, reconfigs>>

\* activate(): registers dynamicParametersCallback with the node
Activate ==
  /\ lifecycle = "inactive"
  /\ lifecycle' = "active"
  /\ UNCHANGED <<resolution, members, objects, locks, now, cp, dp, plans, reconfigs,
                 requested>>

(***************************************************************************)
(* Collaborators of createPlan(): the costmap's coordinate conversion, the *)
(* motion table's heading bins, the search engine's createPath().          *)
(***************************************************************************)
\* world poses a caller can hand to createPlan(): x, y in metres, yaw in degrees
Poses ==
  {[x |-> Rat(0, 1), y |-> Rat(0, 1), yaw |-> 0],
   [x |-> Rat(1, 1), y |-> Rat(1, 1), yaw |-> 90],
   [x |-> Rat(-1, 1), y |-> Rat(0, 1), yaw |-> 0]}

\* what an uninitialized unsigned int can hold: a cell index inside the grid or not
UninitValues == {0, GridSize}

\* Costmap2D::worldToMap(wx, wy, mx, my) with the origin at (0, 0): below the
\* origin mx and my are not written; otherwise they are, inside the grid or not
worldToMap(wx, wy, mx, my) ==
  IF wx[1] < 0 \/ wy[1] < 0
    THEN [ok |-> FALSE, mx |-> mx, my |-> my]
    ELSE LET cx == Trunc(RatDiv(wx, resolution))
             cy == Trunc(RatDiv(wy, resolution))
         IN  [ok |-> cx < GridSize /\ cy < GridSize, mx |-> cx, my |-> cy]

\* NodeLattice::motion_table.getClosestAngularBin(yaw): the nearest of the
\* headings bins of 360 / headings degrees, ties to the lower bin
getClosestAngularBin(yaw, headings) ==
  LET q == (yaw * headings) \div 360
      r == (yaw * headings) % 360
  IN  (IF 2 * r > 360 THEN q + 1 ELSE q) % headings

InGrid(cell) == Len(cell) = 3 /\ cell[1] < GridSize /\ cell[2] < GridSize

\* wall-clock seconds one search can take
SearchDurations == {1, 6}

\* number of states of a path the search can return: the start alone when it is
\* the goal, and either side of the smoother's threshold otherwise
PathLengths == {1, MinSmoothPoses, MinSmoothPoses + 1}

\* the path of len states the search returns, from the goal back to the start
MakePath(len, start, goal) ==
  [i \in 1..len |->
     IF i = 1 THEN goal
     ELSE IF i = len THEN start
     ELSE <<i % GridSize, (i \div 2) % GridSize, 0>>]

\* the ways _a_star->createPath(path, num_iterations, 0) can end
SearchResults(engine) ==
  LET deadline(d) == RatLess(engine.max_planning_time, Rat(d, 1))
      counts == {i \in 0..MaxSearchIterations : i <= engine.max_iterations}
      invalid ==
        {[kind |-> k, found |-> FALSE, throws |-> TRUE, iterations |-> 0,
          duration |-> 1, length |-> 0] : k \in {"InvalidStart", "InvalidGoal"}}
      success ==
        {[kind |-> "Success", found |-> TRUE, throws |-> FALSE, iterations |-> i,
          duration |-> d, length |-> n] :
            i \in counts \ {0}, d \in {t \in SearchDurations : ~deadline(t)},
            n \in {l \in PathLengths : (l = 1) <=> (engine.start = engine.goal)}}
      nopath ==
        {[kind |-> "NoPathFound", found |-> FALSE, throws |-> FALSE, iterations |-> i,
          duration |-> d, length |-> 0] :
            i \in {c \in counts : c < engine.max_iterations},
            d \in {t \in SearchDurations : ~deadline(t)}}
      exceeded ==
        {[kind |-> "IterationsExceeded", found |-> FALSE, throws |-> FALSE,
          iterations |-> i, duration |-> d, length |-> 0] :
            i \in {c \in counts : c = engine.max_iterations},
            d \in {t \in SearchDurations : ~deadline(t)}}
      timeout ==
        {[kind |-> "TimeExceeded", found |-> FALSE, throws |-> FALSE, iterations |-> i,
          duration |-> d, length |-> 0] :
            i \in {c \in counts : c < engine.max_iterations},
            d \in {t \in SearchDurations : deadline(t)}}
  IN  IF ~InGrid(engine.start)
        THEN {r \in invalid : r.kind = "InvalidStart"}
        ELSE IF ~InGrid(engine.goal)
          THEN {r \in invalid : r.kind = "InvalidGoal"}
          ELSE invalid \cup success \cup nopath \cup exceeded \cup timeout

\* the errors createPath throws
Thrown == {"InvalidStart", "InvalidGoal"}

\* the type createPath throws them as
ThrownAs(kind) == IF kind \in Thrown THEN "std::runtime_error" ELSE "none"

\* getWorldCoords(mx, my, costmap) and getWorldOrientation(theta): the centre of
\* the cell and the heading of the bin, in degrees
WorldPose(state, headings) ==
  [x |-> RatDiv(Rat(2 * state[1] + 1, 2), Rat(resolution[2], resolution[1])),
   y |-> RatDiv(Rat(2 * state[2] + 1, 2), Rat(resolution[2], resolution[1])),
   yaw |-> (state[3] * 360) \div headings]

(***************************************************************************)
(* createPlan(start, goal), one action per step between its locks.         *)
(***************************************************************************)
\* the catch block swallowing the exception
PlanError_Swallow(found, throws, kind, iterations, budget) ==
  IF throws THEN ""
  ELSE IF ~found
    THEN IF iterations < budget THEN "no valid path found"
                                ELSE "exceeded maximum iterations"
    ELSE ""

\* the budget test written num_iterations <= getMaxIterations()
PlanError_OffByOne(found, throws, kind, iterations, budget) ==
  IF throws THEN "invalid use: " \o kind
  ELSE IF ~found
    THEN IF iterations <= budget THEN "no valid path found"
                                 ELSE "exceeded maximum iterations"
    ELSE ""

\* the std::string error of lines 243-255
PlanError(found, throws, kind, iterations, budget) ==
  IF throws THEN "invalid use: " \o kind
  ELSE IF ~found
    THEN IF iterations < budget THEN "no valid path found"
                                ELSE "exceeded maximum iterations"
    ELSE ""

\* the loop written for (i = 0; i < path.size(); ++i)
ConvertPath_Forward(path, headings) ==
  [i \in 1..Len(path) |-> WorldPose(path[i], headings)]

\* a try block whose handler matches no exception
Caught_Nothing(throws, exception) == FALSE

\* catch (const std::runtime_error & e): whether the handler takes what the try
\* block threw
Caught(throws, exception) == throws /\ exception = "std::runtime_error"

\* plan.poses after the loop of lines 266-271
ConvertPath(path, headings) ==
  [i \in 1..Len(path) |-> WorldPose(path[Len(path) + 1 - i], headings)]

\* a plan the smoother has moved: the poses between the first and the last are
\* off the centres of their cells
Smoothed(poses) ==
  [i \in 1..Len(poses) |->
     IF 1 < i /\ i < Len(poses)
       THEN [poses[i] EXCEPT !.x = RatSub(poses[i].x, RatDiv(resolution, Rat(4, 1)))]
       ELSE poses[i]]

\* what _smoother->smooth(plan, _costmap, time_remaining) can leave in plan: the
\* plan smoothed, or the plan as it was
SmoothResults(poses) == {poses, Smoothed(poses)}

\* the test written plan.poses.size() >= 6
ShouldSmooth_AtLeast(iterations, poses) == iterations > 1 /\ Len(poses) >= MinSmoothPoses

\* num_iterations > 1 && plan.poses.size() > 6
ShouldSmooth(iterations, poses) == iterations > 1 /\ Len(poses) > MinSmoothPoses

\* _max_planning_time - (b - a)
TimeRemaining(a, b) == RatSub(max_planning_time, Rat(b - a, 1))

\* the planner server calls createPlan(start, goal)
CP_Call ==
  /\ lifecycle = "active"
  /\ cp.pc = "idle"
  /\ plans > 0
  /\ cp' = [IdleCP EXCEPT !.pc = "lock"]
  /\ plans' = plans - 1
  /\ UNCHANGED <<env, members, objects, locks, now, dp, reconfigs, requested>>

\* createPlan() without its lock_guard
CP_Lock_NoMutex(wait) ==
  /\ cp.pc = "lock"
  /\ now' = now + wait
  /\ cp' = [cp EXCEPT !.pc = "lock_costmap", !.a = now + wait, !.locked_at = now + wait,
                      !.seen = Configuration]
  /\ UNCHANGED <<env, members, objects, locks, dp, plans, reconfigs, requested>>

\* std::lock_guard<std::mutex> lock_reinit(_mutex), had after wait seconds;
\* a = steady_clock::now()
CP_Lock(wait) ==
  /\ cp.pc = "lock"
  /\ mutex = "none"
  /\ mutex' = "createPlan"
  /\ now' = now + wait
  /\ cp' = [cp EXCEPT !.pc = "lock_costmap", !.a = now + wait, !.locked_at = now + wait,
                      !.seen = Configuration]
  /\ UNCHANGED <<env, members, objects, costmap_mutex, dp, plans, reconfigs, requested>>

\* std::unique_lock<Costmap2D::mutex_t> lock(*(_costmap->getMutex())), had after
\* wait seconds
CP_LockCostmap(wait) ==
  /\ cp.pc = "lock_costmap"
  /\ costmap_mutex = "none"
  /\ costmap_mutex' = "createPlan"
  /\ now' = now + wait
  /\ cp' = [cp EXCEPT !.pc = "set_checker"]
  /\ UNCHANGED <<env, members, objects, mutex, dp, plans, reconfigs, requested>>

\* createPlan() without line 213
CP_SetCollisionChecker_Skip ==
  /\ cp.pc = "set_checker"
  /\ cp' = [cp EXCEPT !.pc = "set_start"]
  /\ UNCHANGED <<env, members, objects, locks, now, dp, plans, reconfigs, requested>>

\* _a_star->setCollisionChecker(&_collision_checker)
CP_SetCollisionChecker ==
  /\ cp.pc = "set_checker"
  /\ a_star' = [a_star EXCEPT !.collision_checker = TRUE]
  /\ cp' = [cp EXCEPT !.pc = "set_start"]
  /\ UNCHANGED <<env, members, smoother, locks, now, dp, plans, reconfigs, requested>>

\* unsigned int mx, my; worldToMap(start, mx, my); _a_star->setStart(mx, my, bin)
CP_SetStart(start, gx, gy) ==
  /\ cp.pc = "set_start"
  /\ LET w == worldToMap(start.x, start.y, gx, gy)
     IN  /\ a_star' = [a_star EXCEPT !.start =
                         <<w.mx, w.my, getClosestAngularBin(start.yaw, a_star.dim_3_size)>>]
         /\ cp' = [cp EXCEPT !.pc = "set_goal", !.start_ok = w.ok,
                            !.mx = w.mx, !.my = w.my]
  /\ UNCHANGED <<env, members, smoother, locks, now, dp, plans, reconfigs, requested>>

\* worldToMap(goal, mx, my); _a_star->setGoal(mx, my, bin)
CP_SetGoal(goal) ==
  /\ cp.pc = "set_goal"
  /\ LET w == worldToMap(goal.x, goal.y, cp.mx, cp.my)
     IN  /\ a_star' = [a_star EXCEPT !.goal =
                         <<w.mx, w.my, getClosestAngularBin(goal.yaw, a_star.dim_3_size)>>]
         /\ cp' = [cp EXCEPT !.pc = "create_path", !.goal_ok = w.ok,
                            !.mx = w.mx, !.my = w.my]
  /\ UNCHANGED <<env, members, smoother, locks, now, dp, plans, reconfigs, requested>>

\* the try block: _a_star->createPath(path, num_iterations, 0) and the error it
\* leaves; an exception the handler does not take leaves createPlan
CP_CreatePath(r) ==
  /\ cp.pc = "create_path"
  /\ r \in SearchResults(a_star)
  /\ now' = now + r.duration
  /\ LET escapes == r.throws /\ ~Caught(r.throws, ThrownAs(r.kind))
     IN  cp' = [cp EXCEPT
                  !.pc = IF escapes THEN "unlock_costmap" ELSE "check_error",
                  !.uncaught = escapes,
                  !.found = r.found, !.kind = r.kind,
                  !.num_iterations = r.iterations,
                  !.path = MakePath(r.length, a_star.start, a_star.goal),
                  !.error = IF escapes THEN ""
                            ELSE PlanError(r.found, r.throws, r.kind, r.iterations,
                                           a_star.max_iterations)]
  /\ UNCHANGED <<env, members, objects, locks, dp, plans, reconfigs, requested>>

\* if (!error.empty()) return plan;
CP_ReturnError ==
  /\ cp.pc = "check_error"
  /\ cp.error # ""
  /\ cp' = [cp EXCEPT !.pc = "unlock_costmap"]
  /\ UNCHANGED <<env, members, objects, locks, now, dp, plans, reconfigs, requested>>

\* the conversion of the path to world poses
CP_Convert ==
  /\ cp.pc = "check_error"
  /\ cp.error = ""
  /\ cp' = [cp EXCEPT !.pc = "smooth", !.poses = ConvertPath(cp.path, a_star.dim_3_size)]
  /\ UNCHANGED <<env, members, objects, locks, now, dp, plans, reconfigs, requested>>

\* b = steady_clock::now(); time_remaining; the call of _smoother->smooth
CP_Smooth(plan) ==
  /\ cp.pc = "smooth"
  /\ plan \in (IF ShouldSmooth(cp.num_iterations, cp.poses)
                 THEN SmoothResults(cp.poses) ELSE {cp.poses})
  /\ cp' = [cp EXCEPT
              !.pc = "unlock_costmap",
              !.time_remaining = TimeRemaining(cp.a, now),
              !.poses = plan,
              !.smooth_calls = IF ShouldSmooth(cp.num_iterations, cp.poses)
                                 THEN cp.smooth_calls + 1 ELSE cp.smooth_calls]
  /\ UNCHANGED <<env, members, objects, locks, now, dp, plans, reconfigs, requested>>

\* return or unwinding: ~unique_lock releases the costmap
CP_UnlockCostmap ==
  /\ cp.pc = "unlock_costmap"
  /\ costmap_mutex' = "none"
  /\ cp' = [cp EXCEPT !.pc = "unlock"]
  /\ UNCHANGED <<env, members, objects, mutex, now, dp, plans, reconfigs, requested>>

\* a return that leaves _mutex locked
CP_Unlock_Held ==
  /\ cp.pc = "unlock"
  /\ cp' = IdleCP
  /\ now' = 0
  /\ UNCHANGED <<env, members, objects, locks, dp, plans, reconfigs, requested>>

\* return or unwinding: ~lock_guard releases _mutex and the caller has the plan
CP_Unlock ==
  /\ cp.pc = "unlock"
  /\ mutex' = "none"
  /\ cp' = IdleCP
  /\ now' = 0
  /\ UNCHANGED <<env, members, objects, costmap_mutex, dp, plans, reconfigs, requested>>

(***************************************************************************)
(* dynamicParametersCallback(parameters), one action per step.             *)
(***************************************************************************)
Param(n, t, v) == [name |-> n, type |-> t, value |-> v]

\* parameters that are not this planner's: another plugin's, an unknown name,
\* a known name with a value of another type
ForeignParameters ==
  {Param("Other.max_iterations", "INTEGER", 0),
   Param(name \o ".unknown", "DOUBLE", Rat(1, 1)),
   Param(name \o ".max_iterations", "DOUBLE", Rat(0, 1))}

\* the parameters a callback's vector is drawn from
Parameters ==
  {Param(name \o ".max_planning_time", "DOUBLE", Rat(1, 1)),
   Param(name \o ".lookup_table_size", "DOUBLE", Rat(1, 1)),
   Param(name \o ".lookup_table_size", "DOUBLE", Rat(1, 4)),
   Param(name \o ".reverse_penalty", "DOUBLE", Rat(1, 10)),
   Param(name \o ".change_penalty", "DOUBLE", Rat(1, 10)),
   Param(name \o ".non_straight_penalty", "DOUBLE", Rat(3, 2)),
   Param(name \o ".cost_penalty", "DOUBLE", Rat(3, 1)),
   Param(name \o ".analytic_expansion_ratio", "DOUBLE", Rat(4, 1)),
   Param(name \o ".allow_unknown", "BOOL", FALSE),
   Param(name \o ".cache_obstacle_heuristic", "BOOL", TRUE),
   Param(name \o ".allow_reverse_expansion", "BOOL", TRUE),
   Param(name \o ".max_iterations", "INTEGER", -1),
   Param(name \o ".max_iterations", "INTEGER", 0),
   Param(name \o ".max_iterations", "INTEGER", 1),
   Param(name \o ".lattice_filepath", "STRING", "other_model"),
   Param(name \o ".lattice_filepath", "STRING", "missing_model")}
  \cup ForeignParameters

\* the name compared without the plugin's prefix
Is_AnyPlugin(p, t, key) == p.type = t /\ p.name \in {name \o "." \o key, "Other." \o key}

\* type == t && name == _name + "." + key
Is(p, t, key) == p.type = t /\ p.name = name \o "." \o key

\* the (type, name) pairs the loop has a branch for
Doubles == {"max_planning_time", "lookup_table_size", "reverse_penalty", "change_penalty",
            "non_straight_penalty", "cost_penalty", "analytic_expansion_ratio"}
Bools == {"allow_unknown", "cache_obstacle_heuristic", "allow_reverse_expansion"}

Recognized(p) ==
  \/ \E k \in Doubles : Is(p, "DOUBLE", k)
  \/ \E k \in Bools : Is(p, "BOOL", k)
  \/ Is(p, "INTEGER", "max_iterations")
  \/ Is(p, "STRING", "lattice_filepath")

\* the node calls the callback with a vector of parameters
DP_Call ==
  /\ lifecycle = "active"
  /\ dp.pc = "idle"
  /\ dp' = [IdleDP EXCEPT !.pc = "lock"]
  /\ UNCHANGED <<env, members, objects, locks, now, cp, plans, reconfigs, requested>>

\* the callback without its lock_guard
DP_Lock_NoMutex ==
  /\ dp.pc = "lock"
  /\ dp' = [dp EXCEPT !.pc = "loop", !.before = Configuration]
  /\ UNCHANGED <<env, members, objects, locks, now, cp, plans, reconfigs, requested>>

\* std::lock_guard<std::mutex> lock_reinit(_mutex); both flags false
DP_Lock ==
  /\ dp.pc = "lock"
  /\ mutex = "none"
  /\ mutex' = "callback"
  /\ dp' = [dp EXCEPT !.pc = "loop", !.before = Configuration]
  /\ UNCHANGED <<env, members, objects, costmap_mutex, now, cp, plans, reconfigs,
                 requested>>

\* _search_info after one parameter of the loop
SearchInfoAfter(p) ==
  IF Is(p, "DOUBLE", "reverse_penalty")
    THEN [search_info EXCEPT !.reverse_penalty = ToFloat(p.value)]
  ELSE IF Is(p, "DOUBLE", "change_penalty")
    THEN [search_info EXCEPT !.change_penalty = ToFloat(p.value)]
  ELSE IF Is(p, "DOUBLE", "non_straight_penalty")
    THEN [search_info EXCEPT !.non_straight_penalty = ToFloat(p.value)]
  ELSE IF Is(p, "DOUBLE", "cost_penalty")
    THEN [search_info EXCEPT !.cost_penalty = ToFloat(p.value)]
  ELSE IF Is(p, "DOUBLE", "analytic_expansion_ratio")
    THEN [search_info EXCEPT !.analytic_expansion_ratio = ToFloat(p.value)]
  ELSE IF Is(p, "BOOL", "cache_obstacle_heuristic")
    THEN [search_info EXCEPT !.cache_obstacle_heuristic = p.value]
  ELSE IF Is(p, "BOOL", "allow_reverse_expansion")
    THEN [search_info EXCEPT !.allow_reverse_expansion = p.value]
  ELSE IF Is(p, "STRING", "lattice_filepath")
    THEN IF p.value \in LoadableFiles
           THEN [search_info EXCEPT
                   !.lattice_filepath = p.value,
                   !.minimum_turning_radius =
                      ToGridCoords(getLatticeMetadata(p.value).min_turning_radius,
                                   resolution)]
           ELSE [search_info EXCEPT !.lattice_filepath = p.value]
  ELSE search_info

\* one iteration of for (auto parameter : parameters)
DP_Param(p) ==
  /\ dp.pc = "loop"
  /\ reconfigs > 0
  /\ reconfigs' = reconfigs - 1
  /\ max_planning_time' =
       IF Is(p, "DOUBLE", "max_planning_time") THEN p.value ELSE max_planning_time
  /\ lookup_table_size' =
       IF Is(p, "DOUBLE", "lookup_table_size") THEN p.value ELSE lookup_table_size
  /\ allow_unknown' = IF Is(p, "BOOL", "allow_unknown") THEN p.value ELSE allow_unknown
  /\ max_iterations' =
       IF Is(p, "INTEGER", "max_iterations")
         THEN NormalizeMaxIterations(p.value) ELSE max_iterations
  /\ requested' = IF Is(p, "INTEGER", "max_iterations") THEN p.value ELSE requested
  /\ search_info' = SearchInfoAfter(p)
  /\ metadata' =
       IF Is(p, "STRING", "lattice_filepath") /\ p.value \in LoadableFiles
         THEN getLatticeMetadata(p.value) ELSE metadata
  /\ dp' = [dp EXCEPT
              !.own = dp.own \/ p \notin ForeignParameters,
              !.foreign = dp.foreign \/ p \in ForeignParameters,
              !.lattice_set = dp.lattice_set \/ p.name = name \o ".lattice_filepath",
              !.reinit_a_star = dp.reinit_a_star \/ Recognized(p),
              !.reinit_smoother =
                 dp.reinit_smoother \/ Is(p, "STRING", "lattice_filepath"),
              \* getLatticeMetadata throws: the call is left at line 366
              !.pc = IF Is(p, "STRING", "lattice_filepath") /\ p.value \notin LoadableFiles
                       THEN "unwind" ELSE "loop",
              !.result = IF Is(p, "STRING", "lattice_filepath")
                            /\ p.value \notin LoadableFiles
                           THEN "exception" ELSE dp.result]
  /\ UNCHANGED <<env, objects, locks, now, cp, plans>>

\* the loop is over: if (reinit_a_star || reinit_smoother)
DP_LoopEnd ==
  /\ dp.pc = "loop"
  /\ dp' = [dp EXCEPT !.pc = IF dp.reinit_a_star \/ dp.reinit_smoother
                                THEN "derive" ELSE "return"]
  /\ UNCHANGED <<env, members, objects, locks, now, cp, plans, reconfigs, requested>>

\* lines 375-393: the turning radius in grid coordinates, the lookup table dimension
DP_Derive ==
  /\ dp.pc = "derive"
  /\ search_info' = [search_info EXCEPT !.minimum_turning_radius =
                        ToGridCoords(search_info.minimum_turning_radius, resolution)]
  /\ dp' = [dp EXCEPT
              !.pc = "reinit_smoother",
              !.minimum_turning_radius_global_coords = search_info.minimum_turning_radius,
              !.lookup_table_dim = LookupTableDim(lookup_table_size, resolution)]
  /\ UNCHANGED <<env, allow_unknown, max_iterations, max_planning_time,
                 lookup_table_size, metadata, objects, locks, now, cp, plans, reconfigs,
                 requested>>

\* the smoother rebuilt with every rebuild
DP_ReinitSmoother_Always ==
  /\ dp.pc = "reinit_smoother"
  /\ smoother' = NewSmoother(smoother.id + 1, metadata.min_turning_radius)
  /\ dp' = [dp EXCEPT !.pc = "reinit_a_star"]
  /\ UNCHANGED <<env, members, a_star, locks, now, cp, plans, reconfigs, requested>>

\* if (reinit_smoother) { _smoother = make_unique; initialize }
DP_ReinitSmoother ==
  /\ dp.pc = "reinit_smoother"
  /\ smoother' = IF dp.reinit_smoother
                   THEN NewSmoother(smoother.id + 1, metadata.min_turning_radius)
                   ELSE smoother
  /\ dp' = [dp EXCEPT !.pc = "reinit_a_star"]
  /\ UNCHANGED <<env, members, a_star, locks, now, cp, plans, reconfigs, requested>>

\* the engine built from the values the call found when it took the lock
DP_ReinitAStar_Stale ==
  /\ dp.pc = "reinit_a_star"
  /\ a_star' = IF dp.reinit_a_star
                 THEN NewAStar(a_star.id + 1, search_info, dp.before.allow_unknown,
                               dp.before.max_iterations, dp.before.max_planning_time,
                               dp.lookup_table_dim, metadata.number_of_headings)
                 ELSE a_star
  /\ dp' = [dp EXCEPT !.pc = "return",
                      !.rebuilds = IF dp.reinit_a_star THEN dp.rebuilds + 1 ELSE dp.rebuilds]
  /\ UNCHANGED <<env, members, smoother, locks, now, cp, plans, reconfigs, requested>>

\* if (reinit_a_star) { _a_star = make_unique; initialize }
DP_ReinitAStar ==
  /\ dp.pc = "reinit_a_star"
  /\ a_star' = IF dp.reinit_a_star
                 THEN NewAStar(a_star.id + 1, search_info, allow_unknown, max_iterations,
                               max_planning_time, dp.lookup_table_dim,
                               metadata.number_of_headings)
                 ELSE a_star
  /\ dp' = [dp EXCEPT !.pc = "return",
                      !.rebuilds = IF dp.reinit_a_star THEN dp.rebuilds + 1 ELSE dp.rebuilds]
  /\ UNCHANGED <<env, members, smoother, locks, now, cp, plans, reconfigs, requested>>

\* result.successful = true; return result;
DP_Return ==
  /\ dp.pc = "return"
  /\ dp' = [dp EXCEPT !.pc = "unlock", !.result = "successful"]
  /\ UNCHANGED <<env, members, objects, locks, now, cp, plans, reconfigs, requested>>

\* ~lock_guard releases _mutex, on return and when the exception of
\* getLatticeMetadata leaves the callback; the node has the result
DP_Unlock ==
  /\ dp.pc \in {"unlock", "unwind"}
  /\ mutex' = "none"
  /\ dp' = IdleDP
  /\ UNCHANGED <<env, members, objects, costmap_mutex, now, cp, plans, reconfigs,
                 requested>>

(***************************************************************************)
(* The costmap's writers (its update thread): they take the costmap's      *)
(* mutex, change cells and release it; they never touch the planner.       *)
(***************************************************************************)
CW_Lock ==
  /\ lifecycle = "active"
  /\ costmap_mutex = "none"
  /\ costmap_mutex' = "writer"
  /\ UNCHANGED <<env, members, objects, mutex, now, cp, dp, plans, reconfigs, requested>>

CW_Unlock ==
  /\ costmap_mutex = "writer"
  /\ costmap_mutex' = "none"
  /\ UNCHANGED <<env, members, objects, mutex, now, cp, dp, plans, reconfigs, requested>>

CostmapWriter == CW_Lock \/ CW_Unlock

(***************************************************************************)
(* The specifications.  Spec is the whole planner: a planning thread and a *)
(* reconfiguration thread after configure() with the declared defaults of  *)
(* lattice_filepath and lookup_table_size, and activate().                 *)
(* ReconfigureSpec is the reconfiguration thread alone, with every         *)
(* configure() input and longer sequences of parameters.  PlanSpec is the  *)
(* planning thread alone, with the time its call waits for each lock.      *)
(* FairSpec is both threads and the costmap's writers, for fewer poses and  *)
(* parameters than Spec, with every step inside a call taken in the end    *)
(* and every lock had in the end by a thread that is offered it again and  *)
(* again.                                                                  *)
(***************************************************************************)
\* the steps of createPlan() between its locks and its return, for start and
\* goal poses of a given set
CP_Progress(poses) ==
  \/ CP_SetCollisionChecker
  \/ \E start \in poses, gx \in UninitValues, gy \in UninitValues :
       CP_SetStart(start, gx, gy)
  \/ \E goal \in poses : CP_SetGoal(goal)
  \/ \E r \in SearchResults(a_star) : CP_CreatePath(r)
  \/ CP_ReturnError
  \/ CP_Convert
  \/ \E plan \in SmoothResults(cp.poses) : CP_Smooth(plan)
  \/ CP_UnlockCostmap
  \/ CP_Unlock

\* the steps of createPlan() other than taking its locks
CP_Steps ==
  \/ CP_Call
  \/ CP_Progress(Poses)

\* createPlan(), the wait for its locks not timed
CreatePlan ==
  \/ CP_Lock(0)
  \/ CP_LockCostmap(0)
  \/ CP_Steps

\* createPlan(), its locks had after a wait
CreatePlanWaiting ==
  \/ \E wait \in 0..MaxWait : CP_Lock(wait)
  \/ \E wait \in 0..MaxWait : CP_LockCostmap(wait)
  \/ CP_Steps

\* the steps of the callback from the end of its loop to its return
DP_Progress ==
  \/ DP_LoopEnd
  \/ DP_Derive
  \/ DP_ReinitSmoother
  \/ DP_ReinitAStar
  \/ DP_Return
  \/ DP_Unlock

DynamicParametersCallback ==
  \/ DP_Call
  \/ DP_Lock
  \/ \E p \in Parameters : DP_Param(p)
  \/ DP_Progress

Next ==
  \/ \E i \in ConfigMaxIterations : Configure(i, Rat(20, 1), "default_model")
  \/ Activate
  \/ CreatePlan
  \/ DynamicParametersCallback

Spec == Init /\ [][Next]_vars

ReconfigureInit ==
  /\ Constructed
  /\ plans = 0
  /\ reconfigs = MaxParameters

ReconfigureNext ==
  \/ \E i \in ConfigMaxIterations, s \in ConfigLookupSizes, f \in LatticeFiles :
       Configure(i, s, f)
  \/ Activate
  \/ DynamicParametersCallback

ReconfigureSpec == ReconfigureInit /\ [][ReconfigureNext]_vars

PlanInit ==
  /\ Constructed
  /\ plans = MaxPlans
  /\ reconfigs = 0

PlanNext ==
  \/ \E i \in ConfigMaxIterations : Configure(i, Rat(20, 1), "default_model")
  \/ Activate
  \/ CreatePlanWaiting

PlanSpec == PlanInit /\ [][PlanNext]_vars

\* the poses and the parameters FairSpec's calls are given: a start and a goal
\* inside the grid or below its origin, a parameter that rebuilds the engine, one
\* that makes the callback throw and one that is not the planner's
FairPoses == {q \in Poses : q.yaw = 0}

FairParameters ==
  {Param(name \o ".max_planning_time", "DOUBLE", Rat(1, 1)),
   Param(name \o ".lattice_filepath", "STRING", "missing_model"),
   Param("Other.max_iterations", "INTEGER", 0)}

FairNext ==
  \/ Configure(MaxSearchIterations, Rat(20, 1), "default_model")
  \/ Activate
  \/ CP_Call
  \/ CP_Lock(0)
  \/ CP_LockCostmap(0)
  \/ CP_Progress(FairPoses)
  \/ DP_Call
  \/ DP_Lock
  \/ \E p \in FairParameters : DP_Param(p)
  \/ DP_Progress
  \/ CostmapWriter

\* the scheduler runs every thread that can take a step; a mutex is had in the
\* end by a thread that finds it free again and again
Fairness ==
  /\ WF_vars(CP_Progress(FairPoses))
  /\ WF_vars(DP_Progress)
  /\ WF_vars(CW_Unlock)
  /\ SF_vars(CP_Lock(0))
  /\ SF_vars(CP_LockCostmap(0))
  /\ SF_vars(DP_Lock)

FairSpec == Init /\ [][FairNext]_vars /\ Fairness

(***************************************************************************)
(* Properties.                                                             *)
(***************************************************************************)
\* createPlan() is past its lock_guard and has not returned to the caller
CP_Locked == {"lock_costmap", "set_checker", "set_start", "set_goal", "create_path",
              "check_error", "smooth", "unlock_costmap", "unlock"}

\* createPlan() is between setCollisionChecker and the release of _mutex
CP_Section == CP_Locked \ {"lock_costmap"}

\* createPlan() has evaluated its return statement
CP_Returning == {"unlock_costmap", "unlock"}

\* the callback is between its first write and the release of _mutex
DP_Section == {"loop", "derive", "reinit_smoother", "reinit_a_star", "return", "unlock",
               "unwind"}

\* the callback has rebuilt the engine and not yet released _mutex
DP_Rebuilt == dp.pc \in {"return", "unlock"} /\ dp.rebuilds > 0

\* C1: from the moment a createPlan call holds the planner lock until it returns,
\* the engine instance, the smoother and every stored configuration value are the
\* ones it found when it took the lock, whatever the callback thread does.
C1_PlanSeesOneConfiguration == cp.pc \in CP_Locked => Configuration = cp.seen

\* C1 witness: a search is running while a callback call waits for the lock
C1_Witness == cp.pc = "create_path" /\ dp.pc = "lock"

\* C2: createPlan holds _mutex from setCollisionChecker until after smoothing on
\* every exit path, the callback holds it from its first write until the rebuild
\* is complete, and the two are never inside these sections together.
C2_MutualExclusion ==
  /\ cp.pc \in CP_Section => mutex = "createPlan"
  /\ dp.pc \in DP_Section => mutex = "callback"
  /\ ~(cp.pc \in CP_Section /\ dp.pc \in DP_Section)

\* C2 witness: createPlan returns after a caught exception, still holding the
\* lock a callback call waits for
C2_Witness == cp.pc = "unlock" /\ cp.kind \in Thrown /\ dp.pc = "lock"

\* C3 (as claimed): when the callback fails on a lattice file that does not load,
\* the engine, the smoother, the metadata and every stored value are as before
\* the call.
C3_FailedReconfigurationKeepsConfiguration ==
  dp.pc = "unwind" => Configuration = dp.before

\* C4 (as claimed): a search that ended on the planning deadline is reported with
\* a reason that is neither the no-path nor the iterations reason.
C4_TimeExceededReportedDistinctly ==
  (cp.pc \in CP_Returning /\ cp.kind = "TimeExceeded")
    => cp.error \notin {"", "no valid path found", "exceeded maximum iterations"}

\* C5: when createPath returns false or throws, the returned plan has no poses,
\* the error is not empty and the smoother was not called; a returned plan with
\* poses comes from a createPath that returned true.
C5_FailedSearchReturnsEmptyPlan ==
  /\ (cp.pc \in {"check_error", "smooth"} \cup CP_Returning /\ ~cp.found)
       => /\ Len(cp.poses) = 0
          /\ cp.error # ""
          /\ cp.smooth_calls = 0
          /\ cp.pc # "smooth"
  /\ (cp.pc \in CP_Returning /\ Len(cp.poses) > 0) => cp.found

\* C5 witness: createPlan returns after createPath threw
C5_Witness == cp.pc \in CP_Returning /\ cp.kind = "InvalidGoal" /\ Len(cp.poses) = 0

\* C6: a search that returns false with its whole budget used is reported as
\* iterations exceeded, with an empty plan; one that returns false below the
\* budget is reported as no valid path.
C6_IterationBudgetReported ==
  (cp.pc \in CP_Returning /\ ~cp.found /\ cp.kind \notin Thrown)
    => /\ Len(cp.poses) = 0
       /\ cp.num_iterations >= a_star.max_iterations
            => cp.error = "exceeded maximum iterations"
       /\ cp.num_iterations < a_star.max_iterations
            => cp.error = "no valid path found"

\* C6 witness: createPlan returns after a search that used its whole budget
C6_Witness ==
  /\ cp.pc \in CP_Returning
  /\ cp.kind = "IterationsExceeded"
  /\ cp.num_iterations = a_star.max_iterations

\* C7 (as claimed): a call whose start or goal is outside the grid ends with an
\* invalid-start or invalid-goal error and an empty plan, and a search that ran
\* had both its cells from a successful worldToMap.
C7_OffGridEndpointsRejected ==
  /\ (cp.pc \in CP_Returning /\ (~cp.start_ok \/ ~cp.goal_ok))
       => (cp.kind \in Thrown /\ Len(cp.poses) = 0)
  /\ (cp.pc \in {"check_error", "smooth"} \cup CP_Returning /\ cp.kind \notin Thrown)
       => (cp.start_ok /\ cp.goal_ok)

\* C8: once configured, the stored budget and the engine's budget are positive;
\* the stored one is INT_MAX when the value handed in was <= 0 and that value
\* otherwise, and a freshly built engine has the stored one.
C8_IterationBudgetPositive ==
  lifecycle # "unconfigured"
    => /\ max_iterations > 0
       /\ a_star.max_iterations > 0
       /\ max_iterations = (IF requested > 0 THEN requested ELSE INT_MAX)
       /\ (lifecycle = "inactive" \/ DP_Rebuilt) => a_star.max_iterations = max_iterations

\* C8 witness: a callback call handed in -1 and built an engine without a budget
C8_Witness ==
  DP_Rebuilt /\ requested = -1 /\ a_star.id > 1 /\ a_star.max_iterations = INT_MAX

\* C9: the lookup table dimension of the engine is odd; when the engine has just
\* been built it is the truncated quotient of lookup_table_size by the
\* resolution, plus one when that quotient is even.
C9_LookupTableDimOdd ==
  a_star.id # 0
    => /\ a_star.lookup_table_dim % 2 = 1
       /\ (lifecycle = "inactive" \/ DP_Rebuilt)
            => LET q == Trunc(RatDiv(lookup_table_size, resolution))
               IN  a_star.lookup_table_dim = (IF q % 2 = 0 THEN q + 1 ELSE q)

\* C9 witness: a callback call built an engine for a table of 0 cells
C9_Witness ==
  /\ DP_Rebuilt
  /\ a_star.id > 1
  /\ Trunc(RatDiv(lookup_table_size, resolution)) = 0
  /\ a_star.lookup_table_dim = 1

\* C10 (as claimed): whenever no callback call is in progress, the engine's
\* turning radius is the loaded metadata's, divided once by the resolution.
C10_TurningRadiusScaledOnce ==
  (lifecycle # "unconfigured" /\ dp.pc \in {"idle", "lock"})
    => a_star.search_info.minimum_turning_radius
         = RatDiv(metadata.min_turning_radius, resolution)

\* the plan createPlan builds from the path of a search that succeeded, before the
\* smoother has it
RawPlan == ConvertPath(cp.path, a_star.dim_3_size)

\* the plan is the path in reversed order: as many poses as the path has states,
\* pose i the world conversion of path state n-1-i, the first pose the start
\* state and the last the goal state
ReversedPath(plan) ==
  LET n == Len(cp.path)
  IN  /\ Len(plan) = n
      /\ \A i \in 0..(n - 1) : plan[i + 1] = WorldPose(cp.path[n - i], a_star.dim_3_size)
      /\ plan[1] = WorldPose(a_star.start, a_star.dim_3_size)
      /\ plan[n] = WorldPose(a_star.goal, a_star.dim_3_size)

\* C11 (as claimed): the plan a successful createPlan call returns is the search's
\* path reversed and converted, pose by pose.
C11_ReturnedPlanIsReversedPath ==
  (cp.pc \in CP_Returning /\ cp.found) => ReversedPath(cp.poses)

\* C11 (corrected): the plan a successful createPlan call builds, which it hands
\* to the smoother and which it returns whenever the smoother is not called or
\* leaves it as it was, is the search's path reversed and converted, pose by pose.
C11_RawPlanIsReversedPath ==
  /\ (cp.pc = "smooth" /\ cp.found) => ReversedPath(cp.poses)
  /\ (cp.pc \in CP_Returning /\ cp.found) =>
        /\ ReversedPath(RawPlan)
        /\ ~ShouldSmooth(cp.num_iterations, RawPlan) => cp.poses = RawPlan
        /\ cp.poses \in SmoothResults(RawPlan)

\* C11 witness: a plan of several poses is returned as built, from a start cell
\* that is not the goal cell
C11_Witness ==
  /\ cp.pc \in CP_Returning
  /\ cp.found
  /\ Len(cp.poses) = MinSmoothPoses
  /\ a_star.start # a_star.goal
  /\ cp.poses[1] = WorldPose(a_star.start, a_star.dim_3_size)
  /\ cp.poses[1] # cp.poses[MinSmoothPoses]

DP_PastLoop == {"derive", "reinit_smoother", "reinit_a_star", "return", "unlock"}

\* C13: when a call sets lattice_filepath to a file that loads, the metadata is
\* the file's before the engine is built, the engine built in that call has the
\* metadata's number of headings, and the smoother built in that call has the
\* metadata's world-frame turning radius; a call replaces the smoother only when
\* lattice_filepath is among its parameters.
C13_LatticeChangeRebuildsInOrder ==
  /\ (dp.pc \in DP_PastLoop /\ dp.lattice_set)
       => metadata = getLatticeMetadata(search_info.lattice_filepath)
  /\ (dp.pc \in {"return", "unlock"} /\ dp.lattice_set)
       => /\ a_star.id = dp.before.a_star.id + 1
          /\ a_star.dim_3_size = metadata.number_of_headings
          /\ smoother.id = dp.before.smoother.id + 1
          /\ smoother.min_turning_radius = metadata.min_turning_radius
  /\ (dp.pc \in DP_Section /\ smoother # dp.before.smoother) => dp.lattice_set

\* C13 witness: a call has replaced the default lattice by another one and built
\* the engine and the smoother for it
C13_Witness ==
  /\ DP_Rebuilt
  /\ dp.before.search_info.lattice_filepath = "default_model"
  /\ search_info.lattice_filepath = "other_model"
  /\ a_star.dim_3_size = getLatticeMetadata("other_model").number_of_headings
  /\ smoother.min_turning_radius = getLatticeMetadata("other_model").min_turning_radius
  /\ smoother.id = dp.before.smoother.id + 1

\* C14: a call with recognized parameters builds the engine once, after its
\* loop, from the stored values as the whole batch left them.
C14_OneRebuildFromWholeBatch ==
  /\ dp.rebuilds <= 1
  /\ dp.pc \in {"loop", "derive", "reinit_smoother", "reinit_a_star"}
       => (Configuration.a_star = dp.before.a_star /\ dp.rebuilds = 0)
  /\ (dp.pc \in {"return", "unlock"} /\ dp.own)
       => /\ dp.rebuilds = 1
          /\ a_star.id = dp.before.a_star.id + 1
          /\ a_star.allow_unknown = allow_unknown
          /\ a_star.max_iterations = max_iterations
          /\ a_star.max_planning_time = max_planning_time
          /\ a_star.search_info = search_info
          /\ a_star.lookup_table_dim = LookupTableDim(lookup_table_size, resolution)
          /\ a_star.dim_3_size = metadata.number_of_headings

\* C14 witness: one rebuild has taken up two parameters of the same call
C14_Witness ==
  /\ DP_Rebuilt
  /\ dp.rebuilds = 1
  /\ a_star.max_planning_time # dp.before.a_star.max_planning_time
  /\ a_star.allow_unknown # dp.before.a_star.allow_unknown

\* C15: a call none of whose parameters is this planner's leaves the engine, the
\* smoother, the metadata and every stored value as they were, rebuilds nothing
\* and returns a successful result.
C15_ForeignParametersChangeNothing ==
  (dp.pc \in DP_Section /\ ~dp.own)
    => /\ Configuration = dp.before
       /\ dp.rebuilds = 0
       /\ dp.pc \in {"loop", "return", "unlock"}
       /\ dp.pc = "unlock" => dp.result = "successful"

\* C15 witness: a call that carried only foreign parameters returns
C15_Witness ==
  dp.pc = "unlock" /\ dp.foreign /\ ~dp.own /\ dp.result = "successful"

\* createPlan() is past setCollisionChecker and has not released _mutex
CP_Attached == CP_Section \ {"set_checker"}

\* C16: from before the start is set until the call returns, the search and the
\* smoothing included, the live engine has the collision checker attached,
\* whichever engine the reconfigurations before the call have left.
C16_CheckerAttachedBeforeSearch ==
  cp.pc \in CP_Attached => (a_star.id # 0 /\ a_star.collision_checker)

\* C16 witness: a search is about to run on an engine a reconfiguration built
C16_Witness ==
  cp.pc = "create_path" /\ a_star.id > 1 /\ a_star.collision_checker

\* C17: a call runs the smoother at most once, on the fully converted plan, and it
\* does so exactly when the search succeeded with more than 1 iteration and the
\* plan has more than 6 poses; a plan the smoother was not called on is returned
\* as converted; the budget given to the smoother is max_planning_time less the
\* time since the call took the planner lock.
C17_SmootherCalledOnceOnLongPlans ==
  /\ cp.smooth_calls <= 1
  /\ cp.pc \in CP_Locked \ CP_Returning => cp.smooth_calls = 0
  /\ (cp.pc \in CP_Returning /\ ~cp.uncaught)
       => /\ cp.smooth_calls = 1
               <=> (cp.found /\ cp.num_iterations > 1 /\ Len(RawPlan) > 6)
          /\ cp.smooth_calls = 1
               => /\ Len(RawPlan) = Len(cp.path)
                  /\ cp.poses \in SmoothResults(RawPlan)
                  /\ cp.time_remaining
                       = RatSub(max_planning_time, Rat(now - cp.locked_at, 1))
          /\ (cp.smooth_calls = 0 /\ cp.found) => cp.poses = RawPlan

\* C17 witness: the smoother has been called on a plan of 7 poses, with a budget
\* that the wait for the costmap lock has shortened, in a call that waited for
\* the planner lock
C17_Witness ==
  /\ cp.pc \in CP_Returning
  /\ cp.smooth_calls = 1
  /\ Len(cp.poses) = MinSmoothPoses + 1
  /\ cp.locked_at > 0
  /\ now - cp.locked_at > 1
  /\ cp.time_remaining = RatSub(max_planning_time, Rat(now - cp.locked_at, 1))

\* the locks as the code orders them: the costmap lock is held by createPlan only
\* under the planner lock, the callback holds the planner lock alone, a writer
\* the costmap lock alone, and a call that is not running holds nothing
LockOrder ==
  /\ mutex \in {"none", "createPlan", "callback"}
  /\ costmap_mutex \in {"none", "createPlan", "writer"}
  /\ costmap_mutex = "createPlan" => mutex = "createPlan"
  /\ mutex = "createPlan" <=> cp.pc \in CP_Locked
  /\ costmap_mutex = "createPlan" <=> cp.pc \in CP_Section \ {"unlock"}
  /\ mutex = "callback" <=> dp.pc \in DP_Section

\* whoever holds a lock that a call waits for can take a step
HolderCanStep ==
  /\ (cp.pc = "lock" /\ mutex = "callback") => ENABLED DP_Progress
  /\ (cp.pc = "lock_costmap" /\ costmap_mutex = "writer") => ENABLED CW_Unlock
  /\ (dp.pc = "lock" /\ mutex = "createPlan")
       => \/ ENABLED (CP_LockCostmap(0) \/ CP_Progress(FairPoses))
          \/ (costmap_mutex = "writer" /\ ENABLED CW_Unlock)

\* createPlan takes the costmap lock holding the planner lock, and releases the
\* planner lock when it has released the costmap lock
LockSteps ==
  /\ (costmap_mutex' = "createPlan" /\ costmap_mutex # "createPlan")
       => (mutex = "createPlan" /\ mutex' = "createPlan")
  /\ (mutex' = "none" /\ mutex = "createPlan") => costmap_mutex # "createPlan"

\* C18: the two locks are taken planner lock first and released costmap lock
\* first, by createPlan alone; no state is a deadlock of planning calls,
\* reconfiguration calls and costmap writers; and with fair locks and steps that
\* end, a reconfiguration call that waits is applied and a planning call that
\* waits runs its search and returns.
C18_LockOrderAndProgress ==
  /\ [](LockOrder /\ HolderCanStep)
  /\ [][LockSteps]_vars
  /\ (dp.pc = "lock") ~> (dp.pc \in {"unlock", "unwind"})
  /\ (dp.pc \in {"unlock", "unwind"}) ~> (dp.pc = "idle")
  /\ (cp.pc = "lock") ~> (cp.pc = "create_path")
  /\ (cp.pc = "create_path") ~> (cp.pc = "idle")

\* C18 witness: a planning call waits for the costmap lock a writer holds while a
\* reconfiguration call waits for the planner lock
C18_Witness ==
  /\ cp.pc = "lock_costmap"
  /\ costmap_mutex = "writer"
  /\ mutex = "createPlan"
  /\ dp.pc = "lock"

====
